---- MODULE Spec2Model ----
(***************************************************************************)
(* The resource registry of angular-data: DS.defineResource and the        *)
(* functions it installs on a definition (getEndpoint, the cache's         *)
(* onExpire handler, the proxies of the DS methods).                       *)
(*                                                                         *)
(* JavaScript values are strings here.  A property that is absent reads    *)
(* Undefined; values that are not JavaScript strings are spelled with a    *)
(* leading '#' ("#0", "#false", "#null" are falsy, "#5" is truthy).        *)
(* A path built by makePath is the sequence of its segments.               *)
(***************************************************************************)
EXTENDS Naturals, Sequences, FiniteSets, TLC

VARIABLES
    definitions,  \* DS.definitions: resource name -> resource definition
    store,        \* DS.store: resource name -> the resource's Entity Store
    caches,       \* the caches made by DS.cacheFactory: name -> (key -> record)
    defaults,     \* DS.defaults, the prototype of every definition
    last          \* the last call made on the data store and what it returned

vars == <<definitions, store, caches, defaults, last>>

(***************************************************************************)
(* Values                                                                  *)
(***************************************************************************)
Undefined == "<undefined>"

NonStrings == {"#0", "#false", "#null", "#5"}

Falsy == {Undefined, "", "#0", "#false", "#null"}

isString(v) == v # Undefined /\ v \notin NonStrings

Truthy(v) == v \notin Falsy

isFunction(v) == v \in {"fn", "globalFn", "localFn"}

\* definition.replace(/\s/gi, '') on the strings handed to defineResource
StripWS(s) ==
    CASE s = " "       -> ""
      [] s = "us er"   -> "user"
      [] s = " post "  -> "post"
      [] OTHER         -> s

\* DS.utils.pascalCase(name): the name of the wrapper class
pascalCase(s) ==
    CASE StripWS(s) = ""        -> ""
      [] StripWS(s) = "user"    -> "User"
      [] StripWS(s) = "post"    -> "Post"
      [] StripWS(s) = "comment" -> "Comment"
      [] OTHER                  -> s

(***************************************************************************)
(* Bounds and the inputs drawn in the actions                              *)
(***************************************************************************)
\* collectionModified is capped: at most this many changes of one collection
MaxModified == 2

\* proxied methods are called with at most this many arguments
MaxArgs == 3

Names == {"user", "post", "comment"}

Ids == {"1", "2"}

Fields == {"id", "_id", "userId", "postId", "commentId"}

HookNames == {"beforeCreate", "validate"}

NoRelation == [model |-> Undefined, parent |-> FALSE, localKey |-> Undefined, isNull |-> FALSE]

\* the argument of defineResource when it is the object {name: n}
ObjectDef(n) ==
    [kind |-> "object", str |-> Undefined, name |-> n,
     idAttribute |-> Undefined, endpoint |-> Undefined,
     belongsTo |-> NoRelation,
     beforeCreate |-> Undefined, validate |-> Undefined,
     onExpire |-> Undefined, computed |-> Undefined]

\* the argument of defineResource when it is the string s
StringDef(s) == [ObjectDef(Undefined) EXCEPT !.kind = "string", !.str = s]

\* an argument that is neither a string nor an object
OtherDef == [ObjectDef(Undefined) EXCEPT !.kind = "other"]

\* relations: {belongsTo: {m: {parent: true, localKey: k}}}
ParentRelation(m, k) == [model |-> m, parent |-> TRUE, localKey |-> k, isNull |-> FALSE]

\* relations: {belongsTo: {m: null}}
NullRelation(m) == [model |-> m, parent |-> FALSE, localKey |-> Undefined, isNull |-> TRUE]

(***************************************************************************)
(* function Resource(utils, options), with Resource.prototype = DS.defaults *)
(***************************************************************************)
\* Resource without the hooks of its options: the mixin leaves them out
ResourceNoHooks(options) ==
    [name         |-> options.name,
     idAttribute  |-> options.idAttribute,
     endpoint     |-> IF options.endpoint # Undefined
                      THEN options.endpoint ELSE options.name,
     relations    |-> options.belongsTo,
     beforeCreate |-> Undefined,
     validate     |-> Undefined,
     onExpire     |-> options.onExpire,
     computed     |-> options.computed,
     parent       |-> Undefined,
     parentKey    |-> Undefined,
     class        |-> Undefined]

Resource(options) ==
    [name         |-> options.name,
     idAttribute  |-> options.idAttribute,
     endpoint     |-> IF options.endpoint # Undefined
                      THEN options.endpoint ELSE options.name,
     relations    |-> options.belongsTo,
     beforeCreate |-> options.beforeCreate,
     validate     |-> options.validate,
     onExpire     |-> options.onExpire,
     computed     |-> options.computed,
     parent       |-> Undefined,
     parentKey    |-> Undefined,
     class        |-> Undefined]

\* def.p: the definition's own property, else its prototype's
Lookup(def, prototype, p) == IF def[p] # Undefined THEN def[p] ELSE prototype[p]

\* def.p, the prototype being DS.defaults
Prop(def, p) == Lookup(def, defaults, p)

(***************************************************************************)
(* Small maps: JavaScript objects used as dictionaries                     *)
(***************************************************************************)
EmptyMap == [k \in {} |-> Undefined]

Has(m, k) == k \in DOMAIN m

Put(m, k, v) == [x \in DOMAIN m \cup {k} |-> IF x = k THEN v ELSE m[x]]

\* delete m[k]
Delete(m, k) == [x \in DOMAIN m \ {k} |-> m[x]]

(***************************************************************************)
(* defineResource(definition)                                              *)
(***************************************************************************)
\* a string is stripped of its whitespace and becomes {name: string}
Normalize(definition) ==
    IF definition.kind = "string"
    THEN ObjectDef(StripWS(definition.str))
    ELSE definition

\* Validate without its last check: a registered name is not refused
ValidateTwice(d) ==
    IF d.kind # "object" THEN "IA"
    ELSE IF ~isString(d.name) THEN "IA"
    ELSE IF Truthy(d.idAttribute) /\ ~isString(d.idAttribute) THEN "IA"
    ELSE IF Truthy(d.endpoint) /\ ~isString(d.endpoint) THEN "IA"
    ELSE "ok"

\* the checks made before anything is registered; "ok" when all pass
Validate(d) ==
    IF d.kind # "object" THEN "IA"
    ELSE IF ~isString(d.name) THEN "IA"
    ELSE IF Truthy(d.idAttribute) /\ ~isString(d.idAttribute) THEN "IA"
    ELSE IF Truthy(d.endpoint) /\ ~isString(d.endpoint) THEN "IA"
    ELSE IF Has(store, d.name) THEN "R"
    ELSE "ok"

\* def.parent and def.parentKey, from the belongsTo relation flagged parent
SetupParent(def) ==
    IF def.relations.model # Undefined /\ def.relations.parent
    THEN [def EXCEPT !.parent = def.relations.model,
                     !.parentKey = def.relations.localKey]
    ELSE def

\* the step of the try block that throws for this definition, "none" if none:
\* a null belongsTo relation is dereferenced (TypeError), the cache factory
\* refuses, eval of 'function <class>() {}' has no class name (SyntaxError),
\* a computed property is neither a function nor an array (TypeError)
FailStep(d, cacheFault) ==
    IF d.belongsTo.isNull THEN "parent"
    ELSE IF cacheFault THEN "cache"
    ELSE IF pascalCase(d.name) = "" THEN "class"
    ELSE IF d.computed \notin {Undefined, "array"} THEN "computed"
    ELSE "none"

Thrown(step) ==
    CASE step = "parent"   -> "TypeError"
      [] step = "cache"    -> "CacheError"
      [] step = "class"    -> "SyntaxError"
      [] step = "computed" -> "TypeError"

\* DS.store[def.name] = {...}
NewStore(name) ==
    [collection         |-> <<>>,
     completedQueries   |-> EmptyMap,
     pendingQueries     |-> EmptyMap,
     index              |-> name,
     modified           |-> EmptyMap,
     saved              |-> EmptyMap,
     previousAttributes |-> EmptyMap,
     observers          |-> EmptyMap,
     collectionModified |-> 0]

\* the definition when the try block runs to its end
NewDefinition(d) == [SetupParent(Resource(d)) EXCEPT !.class = pascalCase(d.name)]

\* the registry when a step of the try block throws: the definition has been
\* stored, and no step that can throw comes after the store entry is made
AtThrow(defs, d) == Put(defs, d.name, Resource(d))

\* a rollback that forgets the entry
RollbackKeeps(table, name) == table

\* catch (err): delete definitions[definition.name], delete DS.store[definition.name]
Rollback(table, name) == Delete(table, name)

DefineResource(definition, cacheFault) ==
    LET d    == Normalize(definition)
        err  == Validate(d)
        step == FailStep(d, cacheFault)
        call == [op |-> "defineResource", input |-> definition,
                 name |-> IF d.kind = "object" THEN d.name ELSE Undefined]
    IN  /\ defaults' = defaults
        /\ IF err # "ok"
           THEN /\ UNCHANGED <<definitions, store, caches>>
                /\ last' = call @@ [result |-> err]
           ELSE /\ caches' = IF step \in {"parent", "cache"}
                             THEN caches
                             ELSE Put(caches, d.name, EmptyMap)
                /\ IF step = "none"
                   THEN /\ definitions' = Put(definitions, d.name, NewDefinition(d))
                        /\ store' = Put(store, d.name, NewStore(d.name))
                        /\ last' = call @@ [result |-> "ok"]
                   ELSE \* catch (err): roll back and rethrow
                        /\ definitions' = Rollback(AtThrow(definitions, d), d.name)
                        /\ store' = Rollback(store, d.name)
                        /\ last' = call @@ [result |-> Thrown(step)]

(***************************************************************************)
(* The store-level verbs the registry relies on                            *)
(***************************************************************************)
\* no record: what get and eject return for a key the store does not hold
NoRecord == [f \in Fields |-> Undefined]

\* the record {<idAttribute>: id, <key>: fk}
MakeRecord(idAttribute, id, key, fk) ==
    [f \in Fields |-> IF f = idAttribute THEN id
                      ELSE IF f = key THEN fk ELSE Undefined]

\* the position of the record with primary key id in a collection, 0 if none
RECURSIVE IndexOf(_, _, _)
IndexOf(collection, idAttribute, id) ==
    IF collection = <<>> THEN 0
    ELSE IF collection[Len(collection)][idAttribute] = id THEN Len(collection)
    ELSE IndexOf(SubSeq(collection, 1, Len(collection) - 1), idAttribute, id)

RemoveAt(s, i) == SubSeq(s, 1, i - 1) \o SubSeq(s, i + 1, Len(s))

\* DS.get(name, id): the record the index holds under id, NoRecord if none
Get(st, ca, name, id) ==
    IF Has(st, name) /\ Has(ca[st[name].index], id)
    THEN ca[st[name].index][id] ELSE NoRecord

\* the store table after DS.inject(name, rec)
InjectStore(st, ca, name, idAttribute, rec) ==
    LET s  == st[name]
        id == rec[idAttribute]
        i  == IndexOf(s.collection, idAttribute, id)
    IN  Put(st, name,
            [s EXCEPT
               !.collection = IF i = 0 THEN Append(s.collection, rec)
                              ELSE [s.collection EXCEPT ![i] = rec],
               !.previousAttributes =
                   IF Has(ca[s.index], id)
                   THEN Put(s.previousAttributes, id, ca[s.index][id])
                   ELSE s.previousAttributes,
               !.collectionModified = s.collectionModified + 1])

\* the caches after DS.inject(name, rec)
InjectCaches(st, ca, name, idAttribute, rec) ==
    Put(ca, st[name].index, Put(ca[st[name].index], rec[idAttribute], rec))

\* the record DS.eject(name, id) removes and returns, NoRecord if none
Ejected(st, name, idAttribute, id) ==
    LET i == IndexOf(st[name].collection, idAttribute, id)
    IN  IF i = 0 THEN NoRecord ELSE st[name].collection[i]

\* the store table after DS.eject(name, id)
EjectStore(st, name, idAttribute, id) ==
    LET s == st[name]
        i == IndexOf(s.collection, idAttribute, id)
    IN  IF i = 0 THEN st
        ELSE Put(st, name,
                 [s EXCEPT
                    !.collection = RemoveAt(s.collection, i),
                    !.modified = Delete(s.modified, id),
                    !.saved = Delete(s.saved, id),
                    !.previousAttributes = Delete(s.previousAttributes, id),
                    !.observers = Delete(s.observers, id),
                    !.collectionModified = s.collectionModified + 1])

\* the caches after DS.eject(name, id)
EjectCaches(st, ca, name, id) ==
    Put(ca, st[name].index, Delete(ca[st[name].index], id))

\* a definition whose primary keys can be read from a record
Keyed(name) == Has(definitions, name) /\ Prop(definitions[name], "idAttribute") \in Fields

Inject(name, id, fk) ==
    LET def == definitions[name]
        ida == Prop(def, "idAttribute")
        rec == MakeRecord(ida, id, def.parentKey, fk)
    IN  /\ Keyed(name)
        /\ store[name].collectionModified < MaxModified
        /\ store' = InjectStore(store, caches, name, ida, rec)
        /\ caches' = InjectCaches(store, caches, name, ida, rec)
        /\ last' = [op |-> "inject", name |-> name, id |-> id]
        /\ UNCHANGED <<definitions, defaults>>

Eject(name, id) ==
    LET ida == Prop(definitions[name], "idAttribute")
    IN  /\ Keyed(name)
        /\ store[name].collectionModified < MaxModified
        /\ store' = EjectStore(store, name, ida, id)
        /\ caches' = EjectCaches(store, caches, name, id)
        /\ last' = [op |-> "eject", name |-> name, id |-> id,
                    result |-> Ejected(store, name, ida, id)]
        /\ UNCHANGED <<definitions, defaults>>

(***************************************************************************)
(* def.getEndpoint(attrs, options)                                         *)
(***************************************************************************)
\* attrs: a primary key (number or string), a record, or nothing
KeyAttrs(id) == [kind |-> "key", key |-> id, obj |-> NoRecord]

ObjectAttrs(rec) == [kind |-> "object", key |-> Undefined, obj |-> rec]

NoAttrs == [kind |-> "none", key |-> Undefined, obj |-> NoRecord]

NoParams == [k \in Fields |-> Undefined]

\* DS.utils.makePath: the segments joined by '/', empty ones left out
makePath(parentEndpoint, key, thisEndpoint) ==
    parentEndpoint \o (IF key \in {Undefined, "#null", ""} THEN <<>> ELSE <<key>>)
                   \o <<thisEndpoint>>

\* Suppressed without the comparison with false: the signal is not seen
SuppressedNever(params, parentKey) == FALSE

\* options.params[parentKey] === false: the caller suppresses the parent key
Suppressed(params, parentKey) == parentKey \in Fields /\ params[parentKey] = "#false"

\* the call stack holds one frame per resource of an acyclic parent chain
\* and one more; a deeper recursion never ends (RangeError)
StackDepth == Cardinality(Names) + 1

RECURSIVE getEndpoint(_, _, _, _)
getEndpoint(name, attrs, options, depth) ==
    IF depth = 0
    THEN [endpoint |-> <<>>, params |-> options.params, visited |-> <<>>,
          overflow |-> TRUE]
    ELSE
    LET this         == definitions[name]
        parent       == this.parent
        parentKey    == this.parentKey
        thisEndpoint == IF Truthy(options.endpoint) THEN options.endpoint
                        ELSE this.endpoint
        params       == options.params
        given        == IF parentKey \in Fields THEN params[parentKey] ELSE Undefined
        without      == IF parentKey \in Fields
                        THEN [params EXCEPT ![parentKey] = Undefined] ELSE params
        item         == IF attrs.kind = "key" THEN Get(store, caches, name, attrs.key)
                        ELSE NoRecord
        inAttrs      == attrs.kind = "object" /\ parentKey \in Fields
                        /\ attrs.obj[parentKey] # Undefined
        inItem       == item # NoRecord /\ parentKey \in Fields
                        /\ item[parentKey] # Undefined
        \* definitions[parent].getEndpoint(attrs, options), options.endpoint deleted
        up(ps)       == getEndpoint(parent, attrs,
                                    [endpoint |-> Undefined, params |-> ps], depth - 1)
        \* called once parentKey is deleted from options.params, or before
        upWithout    == up(without)
        upWith       == up(params)
        flat(ps)     == [endpoint |-> <<thisEndpoint>>, params |-> ps,
                         visited |-> <<name>>, overflow |-> FALSE]
        nested(r, key, ps) ==
            [endpoint |-> makePath(r.endpoint, key, thisEndpoint), params |-> ps,
             visited |-> <<name>> \o r.visited, overflow |-> r.overflow]
    IN  IF Truthy(parent) /\ Truthy(parentKey) /\ Has(definitions, parent)
           /\ ~Suppressed(params, parentKey)
        THEN IF inAttrs
             THEN nested(upWithout, attrs.obj[parentKey], upWithout.params)
             ELSE IF inItem
             THEN nested(upWithout, item[parentKey], upWithout.params)
             ELSE IF Truthy(given)
             THEN \* the key is read from options.params after the parent's call
                  nested(upWith, upWith.params[parentKey],
                         [upWith.params EXCEPT ![parentKey] = Undefined])
             ELSE flat(params)
        ELSE IF given = "#false" THEN flat(without) ELSE flat(params)

ResolveEndpoint(name, attrs, options) ==
    /\ Has(definitions, name)
    /\ last' = [op |-> "getEndpoint", name |-> name, attrs |-> attrs,
                options |-> options,
                result |-> getEndpoint(name, attrs, options, StackDepth)]
    /\ UNCHANGED <<definitions, store, caches, defaults>>

(***************************************************************************)
(* The cache's onExpire and the proxies of the DS methods                  *)
(***************************************************************************)
\* onExpire with its two statements in the other order: def.onExpire is
\* called first, with no item yet, and the record is ejected after
onExpireCallsFirst(def, id, st, ca) ==
    LET ida == Prop(def, "idAttribute")
    IN  [store  |-> EjectStore(st, def.name, ida, id),
         caches |-> EjectCaches(st, ca, def.name, id),
         called |-> IF isFunction(Prop(def, "onExpire")) THEN <<id, NoRecord>> ELSE <<>>,
         heldAtCall |-> IndexOf(st[def.name].collection, ida, id) # 0]

\* onExpire: function (id) of the resource's cache: what it leaves of the
\* store and the caches, the arguments it hands to def.onExpire (<<>> when
\* def.onExpire is no function) and whether the collection still held the
\* record when def.onExpire ran
onExpire(def, id, st, ca) ==
    LET ida  == Prop(def, "idAttribute")
        item == Ejected(st, def.name, ida, id)
    IN  [store  |-> EjectStore(st, def.name, ida, id),
         caches |-> EjectCaches(st, ca, def.name, id),
         called |-> IF isFunction(Prop(def, "onExpire")) THEN <<id, item>> ELSE <<>>,
         heldAtCall |-> IndexOf(EjectStore(st, def.name, ida, id)[def.name].collection,
                                ida, id) # 0]

\* the cache of resource name expires the entry under id: the entry is
\* removed and the cache calls its onExpire option with the key
Expire(name, id) ==
    LET expired == Put(caches, name, Delete(caches[name], id))
        r       == onExpire(definitions[name], id, store, expired)
    IN  /\ Keyed(name)
        /\ Has(caches[name], id)
        /\ store[name].collectionModified < MaxModified
        /\ store' = r.store
        /\ caches' = r.caches
        /\ last' = [op |-> "expire", name |-> name, id |-> id,
                    called |-> r.called, heldAtCall |-> r.heldAtCall]
        /\ UNCHANGED <<definitions, defaults>>

methodsToProxy ==
    <<"bindAll", "bindOne", "changes", "create", "createInstance", "destroy",
      "destroyAll", "eject", "ejectAll", "filter", "find", "findAll", "get",
      "hasChanges", "inject", "lastModified", "lastSaved", "link", "linkAll",
      "linkInverse", "loadRelations", "previous", "refresh", "save", "update",
      "updateAll">>

Min(a, b) == IF a < b THEN a ELSE b

\* args.splice(start, 0, item)
Splice(args, start, item) ==
    SubSeq(args, 1, Min(start, Len(args))) \o <<item>>
        \o SubSeq(args, Min(start, Len(args)) + 1, Len(args))

\* ProxyArgs with push in the place of unshift: the name comes last
ProxyArgsPush(def, method, args) ==
    IF method = "bindOne" \/ method = "bindAll"
    THEN Splice(args, 2, def.name)
    ELSE args \o <<def.name>>

\* the arguments def[method] hands to DS[method]
ProxyArgs(def, method, args) ==
    IF method = "bindOne" \/ method = "bindAll"
    THEN Splice(args, 2, def.name)
    ELSE <<def.name>> \o args

\* DS[method].apply(DS, args): what it leaves of the store and the caches, and
\* what it returns; of the verbs, eject and get are followed into the store
DSApply(method, args, st, ca) ==
    LET same == [store |-> st, caches |-> ca, result |-> NoRecord]
    IN  IF Len(args) < 2 \/ method \notin {"eject", "get"} THEN same
        ELSE IF ~Keyed(args[1]) THEN same
        ELSE IF method = "get"
        THEN [same EXCEPT !.result = Get(st, ca, args[1], args[2])]
        ELSE LET ida == Prop(definitions[args[1]], "idAttribute")
             IN  [store  |-> EjectStore(st, args[1], ida, args[2]),
                  caches |-> EjectCaches(st, ca, args[1], args[2]),
                  result |-> Ejected(st, args[1], ida, args[2])]

\* the argument list of a call with n arguments
ArgList(n) == [i \in 1..n |-> IF i = 1 THEN "1" ELSE IF i = 2 THEN "2" ELSE "a"]

\* Resource[method](args...) on the handle defineResource returned for name
Proxy(name, method, args) ==
    LET forwarded == ProxyArgs(definitions[name], method, args)
        r         == DSApply(method, forwarded, store, caches)
    IN  /\ Has(definitions, name)
        /\ \E i \in 1..Len(methodsToProxy) : methodsToProxy[i] = method
        /\ \A n \in DOMAIN r.store : r.store[n].collectionModified <= MaxModified
        /\ store' = r.store
        /\ caches' = r.caches
        /\ last' = [op |-> "proxy", name |-> name, method |-> method,
                    args |-> args, forwarded |-> forwarded, result |-> r.result]
        /\ UNCHANGED <<definitions, defaults>>

(***************************************************************************)
(* The data store                                                          *)
(***************************************************************************)
\* the definitions handed to defineResource
Variants(n) ==
    {ObjectDef(n),
     [ObjectDef(n) EXCEPT !.idAttribute = "_id"],
     [ObjectDef(n) EXCEPT !.idAttribute = "#5"],
     [ObjectDef(n) EXCEPT !.idAttribute = "#0"],
     [ObjectDef(n) EXCEPT !.endpoint = "ep"],
     [ObjectDef(n) EXCEPT !.endpoint = "#5"],
     [ObjectDef(n) EXCEPT !.endpoint = "#0"],
     [ObjectDef(n) EXCEPT !.beforeCreate = "localFn"],
     [ObjectDef(n) EXCEPT !.onExpire = "fn"],
     [ObjectDef(n) EXCEPT !.computed = "array"],
     [ObjectDef(n) EXCEPT !.computed = "#5"],
     [ObjectDef(n) EXCEPT !.belongsTo = NullRelation("post")]}

Definitions ==
    {StringDef(s) : s \in {"user", "us er", "post", " post ", "", " "}}
    \cup {OtherDef, ObjectDef(Undefined), ObjectDef("#5"), ObjectDef("")}
    \cup UNION {Variants(n) : n \in {"user", "post"}}

\* the key a resource holds of its parent
KeyOf(parent) ==
    CASE parent = "user" -> "userId"
      [] parent = "post" -> "postId"
      [] parent = "comment" -> "commentId"

NestedDefinitions ==
    {ObjectDef("user")}
    \cup {[ObjectDef(r[1]) EXCEPT !.belongsTo = ParentRelation(r[2], KeyOf(r[2]))] :
             r \in {<<"comment", "post">>, <<"post", "user">>,
                    <<"user", "user">>, <<"user", "post">>}}

\* the plain definitions the handles and the caches are exercised on
HandleDefinitions ==
    {StringDef(n) : n \in {"user", "post"}}
    \cup {[ObjectDef(n) EXCEPT !.onExpire = "fn"] : n \in {"user", "post"}}
    \cup {[ObjectDef("user") EXCEPT !.idAttribute = "_id"]}

Init ==
    /\ definitions = EmptyMap
    /\ store = EmptyMap
    /\ caches = EmptyMap
    /\ defaults = [idAttribute |-> "id", beforeCreate |-> "globalFn",
                   validate |-> "globalFn", onExpire |-> Undefined]
    /\ last = [op |-> "new"]

\* registration, with every kind of argument, over stores that hold records
Next ==
    \/ \E d \in Definitions : DefineResource(d, FALSE)
    \/ \E n \in {"user", "post"} : DefineResource(ObjectDef(n), TRUE)
    \/ \E name \in DOMAIN definitions : Inject(name, "1", Undefined)
    \/ \E name \in DOMAIN definitions : Eject(name, "1")

Spec == Init /\ [][Next]_vars

\* the handles of registered resources: proxies and cache expiry
NextHandle ==
    \/ \E d \in HandleDefinitions : DefineResource(d, FALSE)
    \/ \E name \in DOMAIN definitions, id \in Ids : Inject(name, id, Undefined)
    \/ \E name \in DOMAIN definitions, id \in Ids : Expire(name, id)
    \/ \E name \in DOMAIN definitions, method \in {"bindAll", "bindOne", "eject", "get"},
          n \in 0..MaxArgs : Proxy(name, method, ArgList(n))

SpecHandle == Init /\ [][NextHandle]_vars

Other(id) == IF id = "1" THEN "2" ELSE "1"

\* the attrs handed to a resource's getEndpoint: a primary key, a record that
\* holds the resource's parent key, a record that does not, or nothing
AttrsInputs(def) ==
    {KeyAttrs("1"),
     ObjectAttrs(MakeRecord("id", "1", def.parentKey, "2")),
     ObjectAttrs(MakeRecord("id", "1", Undefined, Undefined)),
     NoAttrs}

\* the options handed to a resource's getEndpoint: with or without an
\* endpoint override, with params that are empty, suppress the parent key
\* (false) or give it
OptionsInputs(def) ==
    {[endpoint |-> e, params |-> NoParams] : e \in {Undefined, "ep"}}
    \cup {[endpoint |-> e, params |-> [NoParams EXCEPT ![k] = v]] :
             e \in {Undefined, "ep"}, k \in {def.parentKey} \cap Fields,
             v \in {"#false", "9"}}

\* nested resources: definitions with parents, records that hold parent keys
NextEndpoint ==
    \/ \E d \in NestedDefinitions : DefineResource(d, FALSE)
    \/ \E r \in {<<"comment", "1">>, <<"user", "1">>, <<"post", "1">>, <<"post", "2">>} :
          /\ Has(definitions, r[1])
          /\ Inject(r[1], r[2], IF definitions[r[1]].parentKey = Undefined
                                THEN Undefined ELSE Other(r[2]))
    \/ \E name \in DOMAIN definitions :
          \E attrs \in AttrsInputs(definitions[name]),
             options \in OptionsInputs(definitions[name]) :
                ResolveEndpoint(name, attrs, options)

SpecEndpoint == Init /\ [][NextEndpoint]_vars

(***************************************************************************)
(* Registration                                                            *)
(***************************************************************************)
\* the last call was defineResource
Defined == last.op = "defineResource"

\* a definition whose idAttribute or endpoint is given and is no string
NonStringOption(d) ==
    \/ d.idAttribute # Undefined /\ ~isString(d.idAttribute)
    \/ d.endpoint # Undefined /\ ~isString(d.endpoint)

\* of those, the ones the checks of defineResource refuse
RefusedOption(d) ==
    \/ Truthy(d.idAttribute) /\ ~isString(d.idAttribute)
    \/ Truthy(d.endpoint) /\ ~isString(d.endpoint)

\* C1 as stated: once a name is registered, every later defineResource call
\* for it fails with the AlreadyRegistered error (RuntimeError) and leaves the
\* name's definition, store and cache as they were.
C1_ReRegistrationIsRuntimeError ==
    [][\A n \in DOMAIN definitions :
          (last'.op = "defineResource" /\ last'.name = n)
          => /\ last'.result = "R"
             /\ definitions'[n] = definitions[n]
             /\ store'[n] = store[n]
             /\ caches'[n] = caches[n]]_vars

\* C1, amended: once a name is registered, every later defineResource call
\* for it fails and leaves the name's definition, store and cache as they
\* were; it fails with AlreadyRegistered (RuntimeError) unless the definition
\* gives a truthy idAttribute or endpoint that is no string, and then with
\* InvalidDefinition (IllegalArgumentError).
C1_ReRegistrationFails ==
    [][\A n \in DOMAIN definitions :
          (last'.op = "defineResource" /\ last'.name = n)
          => /\ last'.result = IF RefusedOption(Normalize(last'.input))
                               THEN "IA" ELSE "R"
             /\ n \in DOMAIN definitions' /\ definitions'[n] = definitions[n]
             /\ n \in DOMAIN store' /\ store'[n] = store[n]
             /\ n \in DOMAIN caches' /\ caches'[n] = caches[n]]_vars

\* C1, reached: a registered name whose store holds a record is registered
\* again, as a string with whitespace, and is refused as already registered.
C1_Witness ==
    /\ Defined /\ last.result = "R"
    /\ last.input.kind = "string" /\ last.input.str # last.name
    /\ Has(store, last.name) /\ store[last.name].collection # <<>>

\* the arguments C3 calls malformed: neither a string nor an object, or a
\* name that is no string or is empty (once a string's whitespace is stripped)
Malformed(definition) ==
    \/ definition.kind = "other"
    \/ ~isString(Normalize(definition).name)
    \/ Normalize(definition).name = ""

\* C2 as stated: when the setup phase of defineResource throws, nothing of
\* the registration remains: no definition, no store entry and no cache for
\* the name.  Stated here for well-formed arguments only, whose names are
\* non-empty strings.
C2_RollbackLeavesNothing ==
    (Defined /\ ~Malformed(last.input) /\ last.result \notin {"ok", "IA", "R"})
    => /\ ~Has(definitions, last.name)
       /\ ~Has(store, last.name)
       /\ ~Has(caches, last.name)

\* C3 as stated: defineResource fails with InvalidDefinition
\* (IllegalArgumentError) for every malformed argument, and creates no
\* definition, store entry or cache for it.
C3_MalformedIsIllegalArgument ==
    (Defined /\ Malformed(last.input))
    => /\ last.result = "IA"
       /\ ~Has(definitions, last.name)
       /\ ~Has(store, last.name)
       /\ ~Has(caches, last.name)

\* C4 as stated: a definition whose idAttribute or endpoint is given and is
\* no string (falsy values included) fails with InvalidDefinition, and no
\* registered resource has an endpoint or idAttribute that is no string.
C4_NonStringOptionIsIllegalArgument ==
    /\ (Defined /\ last.input.kind = "object" /\ isString(last.input.name)
        /\ NonStringOption(last.input))
       => last.result = "IA"
    /\ \A n \in DOMAIN definitions :
          /\ isString(definitions[n].endpoint)
          /\ isString(Prop(definitions[n], "idAttribute"))

\* C8: after a registration the resource's hook is the one its definition
\* gives, and the global default when it gives none; no step changes the
\* hook a registered resource sees, nor the global defaults.
C8_HookResolution ==
    [][/\ (last'.op = "defineResource" /\ last'.result = "ok")
          => \A h \in HookNames :
                Lookup(definitions'[last'.name], defaults', h)
                   = IF Normalize(last'.input)[h] # Undefined
                     THEN Normalize(last'.input)[h] ELSE defaults[h]
       /\ \A n \in DOMAIN definitions, h \in HookNames :
             /\ n \in DOMAIN definitions'
             /\ Lookup(definitions'[n], defaults', h) = Prop(definitions[n], h)
       /\ defaults' = defaults]_vars

\* C8, reached: a resource registered with its own beforeCreate beside one
\* registered without: the first sees its own hook, the second the default.
C8_Witness ==
    /\ Defined /\ last.result = "ok" /\ last.input.beforeCreate = "localFn"
    /\ \E n \in DOMAIN definitions :
          /\ n # last.name
          /\ Prop(definitions[n], "beforeCreate") = defaults.beforeCreate
    /\ Prop(definitions[last.name], "beforeCreate") = "localFn"
    /\ Prop(definitions[last.name], "validate") = defaults.validate

(***************************************************************************)
(* Handles                                                                 *)
(***************************************************************************)
Binds(method) == method \in {"bindOne", "bindAll"}

\* C9 as stated: a proxied method hands DS[method] the resource name followed
\* by its own arguments, and bindOne and bindAll hand it their arguments with
\* the resource name inserted as the third.
C9_NameIsFirstOrThird ==
    last.op = "proxy"
    => IF Binds(last.method)
       THEN /\ Len(last.forwarded) >= 3
            /\ last.forwarded[3] = last.name
       ELSE last.forwarded = <<last.name>> \o last.args

\* C9, amended: a proxied method other than bindOne and bindAll makes the
\* call DS[method](name, args...), with the same effect on the store and the
\* same result; bindOne and bindAll insert the name as the third argument
\* when they are given at least two arguments, and after their arguments
\* otherwise.  The name is the one the resource is registered under.
C9_ProxyForwards ==
    [][last'.op = "proxy"
       => LET n    == last'.name
              a    == last'.args
              call == IF ~Binds(last'.method) THEN <<n>> \o a
                      ELSE IF Len(a) >= 2
                      THEN <<a[1], a[2], n>> \o SubSeq(a, 3, Len(a))
                      ELSE a \o <<n>>
              ds   == DSApply(last'.method, call, store, caches)
          IN  /\ definitions[n].name = n
              /\ last'.forwarded = call
              /\ last'.result = ds.result
              /\ store' = ds.store
              /\ caches' = ds.caches]_vars

\* C9, reached: the handle's eject removed a record of its resource from a
\* store that holds the same key for another resource.
C9_Witness ==
    /\ last.op = "proxy" /\ last.method = "eject"
    /\ last.result # NoRecord
    /\ ~Has(caches[last.name], last.args[1])
    /\ \E n \in DOMAIN caches : n # last.name /\ Has(caches[n], last.args[1])

\* C10: when the cache of a resource expires a key and calls onExpire, the
\* record is ejected from that resource's store (get returns nothing, the
\* collection no longer holds it), the store and cache of every other
\* resource are left alone, and def.onExpire, when it is a function, is
\* called after the ejection with the key and the ejected record.
C10_ExpiryEjects ==
    [][last'.op = "expire"
       => LET n   == last'.name
              id  == last'.id
              ida == Prop(definitions[n], "idAttribute")
              was == Ejected(store, n, ida, id)
          IN  /\ Get(store', caches', n, id) = NoRecord
              /\ IndexOf(store'[n].collection, ida, id) = 0
              /\ Len(store'[n].collection) = Len(store[n].collection) - 1
              /\ \A m \in DOMAIN store \ {n} :
                    store'[m] = store[m] /\ caches'[m] = caches[m]
              /\ IF isFunction(Prop(definitions[n], "onExpire"))
                 THEN /\ Len(last'.called) = 2
                      /\ last'.called[1] = id
                      /\ last'.called[2] = was
                      /\ was[ida] = id
                      /\ ~last'.heldAtCall
                 ELSE Len(last'.called) = 0]_vars

\* C10, reached: a key expired in the cache of a resource that defines
\* onExpire, while another resource holds a record under the same key.
C10_Witness ==
    /\ last.op = "expire" /\ Len(last.called) = 2
    /\ Get(store, caches, last.name, last.id) = NoRecord
    /\ \E m \in DOMAIN store :
          m # last.name /\ Get(store, caches, m, last.id) # NoRecord

(***************************************************************************)
(* Endpoint resolution                                                     *)
(***************************************************************************)
Resolved == last.op = "getEndpoint"

\* the resource resolved, its parent and the key it holds of its parent
This == definitions[last.name]

\* thisEndpoint: options.endpoint if given, else the resource's endpoint
ThisEndpoint ==
    IF Truthy(last.options.endpoint) THEN last.options.endpoint ELSE This.endpoint

\* the resource declares a parent: a registered resource and a key of it
HasParent ==
    /\ Truthy(This.parent) /\ This.parentKey \in Fields
    /\ Has(definitions, This.parent)

\* the record of the resource stored under the primary key given as attrs
Item ==
    IF last.attrs.kind = "key" THEN Get(store, caches, last.name, last.attrs.key)
    ELSE NoRecord

\* the parent key's value, from the first source that has it: attrs when it
\* is a record, the stored record when attrs is its primary key, then
\* options.params; Undefined when none has it
ParentKeyValue ==
    LET k == This.parentKey
    IN  IF last.attrs.kind = "object" /\ last.attrs.obj[k] # Undefined
        THEN last.attrs.obj[k]
        ELSE IF Item[k] # Undefined THEN Item[k]
        ELSE IF Truthy(last.options.params[k]) /\ last.options.params[k] # "#false"
        THEN last.options.params[k]
        ELSE Undefined

\* the endpoint of the parent, resolved for the same attrs and params
ParentEndpoint ==
    getEndpoint(This.parent, last.attrs,
                [endpoint |-> Undefined, params |-> last.options.params],
                StackDepth).endpoint

\* C5 as stated, a declared parent being a registered resource: when the
\* resource declares a parent, the parent key is resolvable and it is not
\* suppressed, getEndpoint returns parentEndpoint / key / thisEndpoint, the
\* key from the first source that has it; in every other case it returns
\* thisEndpoint alone.
C5_EndpointComposition ==
    Resolved
    => IF HasParent /\ ~Suppressed(last.options.params, This.parentKey)
          /\ ParentKeyValue # Undefined
       THEN /\ ~last.result.overflow
            /\ last.result.endpoint
                  = ParentEndpoint \o <<ParentKeyValue, ThisEndpoint>>
       ELSE /\ ~last.result.overflow
            /\ last.result.endpoint = <<ThisEndpoint>>

\* C6: with options.params[parentKey] === false, getEndpoint of a resource
\* that has a parent returns thisEndpoint alone, calls no other resource's
\* getEndpoint and leaves no parentKey entry in options.params, whatever
\* attrs is.
C6_SuppressedIsFlat ==
    (Resolved /\ Truthy(This.parent) /\ This.parentKey \in Fields
     /\ last.options.params[This.parentKey] = "#false")
    => /\ last.result.endpoint = <<ThisEndpoint>>
       /\ last.result.visited = <<last.name>>
       /\ last.result.params[This.parentKey] = Undefined
       /\ ~last.result.overflow

\* C6, reached: the parent key is suppressed for a primary key whose stored
\* record holds the parent key, the parent being registered.
C6_Witness ==
    /\ Resolved /\ HasParent /\ This.parent # last.name
    /\ last.options.params[This.parentKey] = "#false"
    /\ Item[This.parentKey] # Undefined

\* C7 as stated: for a resource whose parent has a parent of its own, the
\* endpoint resolved for a stored record, given as the record or as its
\* primary key, is G.endpoint / gKey / P.endpoint / pKey / C.endpoint, where
\* pKey is the record's parent key and gKey the parent key of the record of
\* P it belongs to.
C7_WholeChain ==
    (/\ Resolved /\ HasParent /\ This.parent # last.name
     /\ last.options = [endpoint |-> Undefined, params |-> NoParams])
    => LET c  == definitions[last.name]
           p  == definitions[c.parent]
           g  == p.parent
           rc == Get(store, caches, c.name, "1")
           rp == Get(store, caches, p.name, rc[c.parentKey])
       IN  (/\ Truthy(g) /\ p.parentKey \in Fields /\ Has(definitions, g)
            /\ g \notin {c.name, p.name} /\ ~Truthy(definitions[g].parent)
            /\ rc # NoRecord /\ rc[c.parentKey] # Undefined
            /\ rp # NoRecord /\ rp[p.parentKey] # Undefined
            /\ last.attrs \in {KeyAttrs("1"), ObjectAttrs(rc)})
           => last.result.endpoint
                 = <<definitions[g].endpoint, rp[p.parentKey],
                     p.endpoint, rc[c.parentKey], c.endpoint>>

(***************************************************************************)
(* Agreement of the registry and the store table                           *)
(***************************************************************************)
\* an Entity Store that holds nothing yet
EmptyStore(s) ==
    /\ s.collection = <<>>
    /\ \A f \in {"pendingQueries", "completedQueries", "modified", "saved",
                  "previousAttributes", "observers"} : DOMAIN s[f] = {}
    /\ s.collectionModified = 0

\* C11: after any sequence of defineResource calls, failing or not, a name has
\* a definition exactly when it has an Entity Store entry, and the Entity
\* Store a successful registration has just created is empty: no records, no
\* pending or completed queries, no modified, saved, previousAttributes or
\* observers entries, and collectionModified 0.
C11_RegistryAgreesWithStore ==
    /\ \A n \in DOMAIN definitions \cup DOMAIN store :
          Has(definitions, n) <=> Has(store, n)
    /\ (Defined /\ last.result = "ok") =>
          /\ Has(store, last.name)
          /\ EmptyStore(store[last.name])

\* a registration has succeeded after another name's registration failed
\* inside the try block (the cache it left tells) and was rolled back
C11_Witness ==
    /\ Defined /\ last.result = "ok"
    /\ Has(definitions, last.name) /\ Has(store, last.name)
    /\ \E n \in DOMAIN caches : ~Has(definitions, n) /\ ~Has(store, n)

(***************************************************************************)
(* Termination of endpoint resolution                                      *)
(***************************************************************************)
\* C12: for every set of definitions defineResource accepts, a resource that
\* names itself as parent and two resources that name each other included,
\* and for every attrs and options, a call of getEndpoint returns after
\* finitely many recursive calls of the parents' getEndpoint: the recursion
\* never runs deeper than the call stack holds.
C12_EndpointTerminates ==
    Resolved =>
        /\ ~last.result.overflow
        /\ Len(last.result.visited) <= Cardinality(DOMAIN definitions)

====
